---- MODULE Spec2Model ----
(***************************************************************************)
(* Model of src/budomari-kun.py: the shelf / column guillotine packer      *)
(* (pack_horizontal, pack_vertical) and the dual-objective search          *)
(* (explore_and_choose).  Lengths are integers (one unit = one step of the *)
(* number inputs); a demand row is [w, h, n], a piece is [w, h, rot, pid], *)
(* a drawn piece is [x, y, w, h, rot], a cut is [x1, y1, x2, y2, kind].    *)
(***************************************************************************)
EXTENDS Integers, Sequences, FiniteSets, TLC

\* ------------------------------------------------------------ bounds
\* largest piece side of a demand row
MaxDim == 2
\* largest quantity of one demand row
MaxQty == 2

\* ------------------------------------------------- program constants
\* over = 20.0: how far a drawn cut line sticks out of the interior
Over == 20
\* candidate_heights' fallback when there is no value at all
DefaultHeight == 100
\* max_height_candidates when the advanced options are hidden
MaxHeightCandidates == 8

\* ----------------------------------------------------- input domains
Dims == 1..MaxDim
Qtys == 1..MaxQty
RowSet == [w : Dims, h : Dims, n : Qtys]
\* the sheet sizes (width, height) offered, in the model's unit
BoardSizes == {<<2, 2>>, <<3, 2>>, <<3, 3>>}
\* kerf (number input, min 0)
Kerfs == {0, 1}
\* extra_allow (blade pressure preset), scaled to the integer unit
Extras == {0, 1}
\* edge_trim (number input, min 0)
Edges == {0, 1}
\* merge_height_tol (number input, min 0)
MergeTols == {0, 1}

SeqsUpTo(S, k) == UNION {[1..m -> S] : m \in 0..k}

Min(a, b) == IF a <= b THEN a ELSE b
Max(a, b) == IF a >= b THEN a ELSE b
Abs(a) == IF a >= 0 THEN a ELSE -a

SetMax(S) == CHOOSE v \in S : \A u \in S : u <= v

\* ------------------------------------------------------------ utilities
normalize_dim(w, h, rotate_ok) ==
    IF rotate_ok THEN <<Min(w, h), Max(w, h)>> ELSE <<w, h>>

\* "=" for "+=": a later row of the same key replaces the count
bundle_count_set(old, n) == n

\* the new count of bundle[key] += n
bundle_count(old, n) == old + n

\* bundle[key] += n on an insertion-ordered defaultdict(int), kept as a
\* sequence of [w, h, n] in order of first insertion
RECURSIVE bundle_add(_, _, _)
bundle_add(bundle, key, n) ==
    IF bundle = <<>>
    THEN << [w |-> key[1], h |-> key[2], n |-> bundle_count(0, n)] >>
    ELSE IF Head(bundle).w = key[1] /\ Head(bundle).h = key[2]
         THEN << [Head(bundle) EXCEPT !.n = bundle_count(@, n)] >> \o Tail(bundle)
         ELSE << Head(bundle) >> \o bundle_add(Tail(bundle), key, n)

RECURSIVE demand_bundled(_, _)
demand_bundled(rows, rotate_ok) ==
    IF rows = <<>> THEN <<>>
    ELSE LET r == rows[Len(rows)]
         IN bundle_add(demand_bundled(SubSeq(rows, 1, Len(rows) - 1), rotate_ok),
                       normalize_dim(r.w, r.h, rotate_ok), r.n)

\* sorted(S): the ascending sequence of a finite set of integers
RECURSIVE SortedAsc(_)
SortedAsc(S) ==
    IF S = {} THEN <<>>
    ELSE LET m == CHOOSE v \in S : \A u \in S : v <= u
         IN <<m>> \o SortedAsc(S \ {m})

Reverse(s) == [i \in 1..Len(s) |-> s[Len(s) + 1 - i]]

\* the merge loop of candidate_heights: keep v when it is more than tol
\* away from the last kept value
RECURSIVE merge_close(_, _, _)
merge_close(vals, merged, tol) ==
    IF vals = <<>> THEN merged
    ELSE LET v == Head(vals)
         IN IF merged = <<>> \/ Abs(merged[Len(merged)] - v) > tol
            THEN merge_close(Tail(vals), Append(merged, v), tol)
            ELSE merge_close(Tail(vals), merged, tol)

candidate_heights(rows, rotate_ok, max_k, tol) ==
    LET vals == {rows[i].h : i \in 1..Len(rows)}
                \cup (IF rotate_ok THEN {rows[i].w : i \in 1..Len(rows)} ELSE {})
        merged == merge_close(SortedAsc(vals), <<>>, tol)
        top == SubSeq(Reverse(merged), 1, Min(max_k, Len(merged)))
    IN IF top # <<>> THEN top
       ELSE << Max(1, IF vals # {} THEN SetMax(vals) ELSE DefaultHeight) >>

\* the sort keys used on pieces: lambda t: t[0]*t[1], the bucket width, the
\* bucket height
sort_key(p, by) ==
    CASE by = "area" -> p.w * p.h
      [] by = "w" -> p.w
      [] by = "h" -> p.h

\* a stable sort, descending by key: insert x after every element whose
\* key is >= x's
RECURSIVE insert_desc(_, _, _)
insert_desc(s, x, by) ==
    IF s = <<>> THEN <<x>>
    ELSE IF sort_key(Head(s), by) >= sort_key(x, by)
         THEN <<Head(s)>> \o insert_desc(Tail(s), x, by)
         ELSE <<x>> \o s

RECURSIVE sort_desc(_, _)
sort_desc(s, by) ==
    IF s = <<>> THEN <<>>
    ELSE insert_desc(sort_desc(SubSeq(s, 1, Len(s) - 1), by), s[Len(s)], by)

\* buckets by width in insertion order, widest bucket first: a stable sort
same_width_pack_order(pieces) == sort_desc(pieces, "w")

\* the same for a column: buckets by height, tallest first
same_height_pack_order(pieces) == sort_desc(pieces, "h")

\* ---------------------------------------------------- demand expansion
\* the orientation chosen for a bundle against the fixed shelf height (or
\* column width): (min, max) when rotation is allowed and the parameter
\* lies in [min, max), else as bundled
orient(w, h, rotate_ok, param) ==
    IF rotate_ok /\ Min(w, h) <= param /\ param < Max(w, h)
    THEN [w |-> Min(w, h), h |-> Max(w, h), rot |-> (w > h)]
    ELSE [w |-> w, h |-> h, rot |-> FALSE]

RECURSIVE expand_bundle(_, _, _, _)
expand_bundle(bundle, rotate_ok, param, idx) ==
    IF bundle = <<>> THEN <<>>
    ELSE LET r == Head(bundle)
             o == orient(r.w, r.h, rotate_ok, param)
         IN [i \in 1..r.n |->
                [w |-> o.w, h |-> o.h, rot |-> o.rot, pid |-> idx + i - 1]]
            \o expand_bundle(Tail(bundle), rotate_ok, param, idx + r.n)

\* expanded, after expanded.sort(key=area, reverse=True)
expanded_pieces(rows, rotate_ok, param) ==
    sort_desc(expand_bundle(demand_bundled(rows, rotate_ok), rotate_ok, param, 0),
              "area")

\* the environment of one packing pass
PassEnv(c, eff_w, eff_h, param) ==
    [eff_w |-> eff_w, eff_h |-> eff_h, param |-> param,
     unit |-> c.kerf + c.extra, kerf |-> c.kerf, extra |-> c.extra,
     edge |-> c.edge, rotate_ok |-> c.rotate_ok]

\* ------------------------------------------- pack_horizontal: placement
new_board_h == [shelves |-> <<>>, used_h |-> 0, cuts |-> <<>>]

open_new_shelf(cur, e) ==
    LET y == cur.used_h + (IF cur.shelves # <<>> THEN e.unit ELSE 0)
        sh == [x |-> 0, y |-> y, h |-> e.param, cursor_x |-> 0,
               placed |-> 0, pieces |-> <<>>]
        yline == IF Len(cur.shelves) + 1 = 1 THEN e.edge
                 ELSE y + e.edge - e.unit
    IN [shelves |-> Append(cur.shelves, sh),
        used_h |-> y + e.param,
        cuts |-> Append(cur.cuts,
                        [x1 |-> 0 + e.edge, y1 |-> yline,
                         x2 |-> e.eff_w + e.edge, y2 |-> yline,
                         kind |-> "horizontal"])]

\* the test of the loop over cur["shelves"]
shelf_admits(sh, p, e) ==
    /\ ~(p.h > sh.h)
    /\ e.eff_w - sh.cursor_x >= p.w + (IF sh.placed > 0 THEN e.unit ELSE 0)

\* a new board as soon as no shelf of cur takes the piece, without asking
\* whether cur has room for a further shelf
opens_board_h_eager(cur, p, e) ==
    \A i \in 1..Len(cur.shelves) : ~shelf_admits(cur.shelves[i], p, e)

\* whether the piece opens a new board: no shelf of cur took it and a
\* further shelf does not fit cur
opens_board_h(cur, p, e) ==
    /\ \A i \in 1..Len(cur.shelves) : ~shelf_admits(cur.shelves[i], p, e)
    /\ cur.used_h + ((IF cur.shelves # <<>> THEN e.unit ELSE 0) + e.param)
          > e.eff_h

\* the body of "for w,h,rot,pid in expanded" on st = [boards, used_area]
place_h(st, p, e) ==
    LET nb == Len(st.boards)
        cur == st.boards[nb]
        fit == {i \in 1..Len(cur.shelves) : shelf_admits(cur.shelves[i], p, e)}
    IN IF fit # {}
       THEN LET i == CHOOSE k \in fit : \A j \in fit : k <= j
                sh == cur.shelves[i]
                need_w == p.w + (IF sh.placed > 0 THEN e.unit ELSE 0)
                sh2 == [sh EXCEPT !.pieces = Append(@, p),
                                  !.placed = @ + 1,
                                  !.cursor_x = @ + (IF sh.placed + 1 > 1
                                                    THEN need_w ELSE p.w)]
            IN [boards |-> [st.boards EXCEPT ![nb].shelves[i] = sh2],
                used_area |-> st.used_area + p.w * p.h]
       ELSE LET fresh == opens_board_h(cur, p, e)
                b1 == IF fresh THEN open_new_shelf(new_board_h, e)
                      ELSE open_new_shelf(cur, e)
                k == Len(b1.shelves)
                b2 == [b1 EXCEPT !.shelves[k].pieces = Append(@, p),
                                 !.shelves[k].placed = @ + 1,
                                 !.shelves[k].cursor_x = @ + p.w]
            IN [boards |-> IF fresh THEN Append(st.boards, b2)
                           ELSE [st.boards EXCEPT ![nb] = b2],
                used_area |-> st.used_area + p.w * p.h]

\* boards = [cur] with its first shelf open, used_area = 0
start_h(e) ==
    [boards |-> << open_new_shelf(new_board_h, e) >>, used_area |-> 0]

RECURSIVE place_all_h(_, _, _)
place_all_h(st, pieces, e) ==
    IF pieces = <<>> THEN st
    ELSE place_all_h(place_h(st, Head(pieces), e), Tail(pieces), e)

\* ------------------------------------ pack_horizontal: redraw and result
\* the re-placement of one shelf: the pieces in same-width order, a cross
\* cut (and unit of gap) only where the width changes
RECURSIVE shelf_redraw(_, _, _, _, _)
shelf_redraw(ordered, i, cursor_x, sh, e) ==
    IF i > Len(ordered) THEN [rects |-> <<>>, cuts |-> <<>>]
    ELSE LET p == ordered[i]
             cross == i > 1 /\ ordered[i - 1].w # p.w
             cx == cursor_x + e.edge
             x == IF cross THEN cursor_x + (e.kerf + e.extra) ELSE cursor_x
             rest == shelf_redraw(ordered, i + 1, x + p.w, sh, e)
         IN [rects |-> << [x |-> x + e.edge, y |-> sh.y + e.edge,
                           w |-> p.w, h |-> p.h, rot |-> p.rot] >>
                       \o rest.rects,
             cuts |-> (IF cross
                       THEN << [x1 |-> cx, y1 |-> sh.y + e.edge,
                                x2 |-> cx, y2 |-> sh.y + sh.h + e.edge,
                                kind |-> "vertical"] >>
                       ELSE <<>>) \o rest.cuts]

\* over the shelves i.. of a board: the drawn pieces and the cross cuts
RECURSIVE shelves_redraw(_, _, _)
shelves_redraw(shelves, i, e) ==
    IF i > Len(shelves) THEN [rects |-> <<>>, cuts |-> <<>>]
    ELSE LET one == shelf_redraw(same_width_pack_order(shelves[i].pieces),
                                 1, 0, shelves[i], e)
             rest == shelves_redraw(shelves, i + 1, e)
         IN [rects |-> one.rects \o rest.rects, cuts |-> one.cuts \o rest.cuts]

\* a cut of b["cuts"] as it is put on cuts_all: stretched over the whole
\* interior and Over beyond it
cut_drawn(cut, e) ==
    IF cut.kind = "horizontal"
    THEN [x1 |-> -Over + e.edge, y1 |-> cut.y1,
          x2 |-> e.eff_w + e.edge + Over, y2 |-> cut.y1, kind |-> cut.kind]
    ELSE [x1 |-> cut.x1, y1 |-> -Over + e.edge,
          x2 |-> cut.x1, y2 |-> e.eff_h + e.edge + Over, kind |-> cut.kind]

cuts_drawn(cuts, e) == [i \in 1..Len(cuts) |-> cut_drawn(cuts[i], e)]

RECURSIVE finish_boards_h(_, _, _)
finish_boards_h(boards, i, e) ==
    IF i > Len(boards)
    THEN [boards_draw |-> <<>>, cuts_all |-> <<>>, cut_count |-> 0]
    ELSE LET b == boards[i]
             rd == shelves_redraw(b.shelves, 1, e)
             rest == finish_boards_h(boards, i + 1, e)
         IN [boards_draw |-> << rd.rects >> \o rest.boards_draw,
             cuts_all |-> cuts_drawn(b.cuts \o rd.cuts, e) \o rest.cuts_all,
             cut_count |-> Len(rd.cuts)
                           + (IF Len(b.shelves) >= 2 THEN Len(b.shelves) - 1 ELSE 0)
                           + rest.cut_count]

\* (boards_draw, cuts_all, used_area, cut_count, len(boards))
finish_h(st, e) ==
    LET f == finish_boards_h(st.boards, 1, e)
    IN [boards_draw |-> f.boards_draw, cuts_draw |-> f.cuts_all,
        used |-> st.used_area, cuts |-> f.cut_count, boards |-> Len(st.boards)]

pack_horizontal(rows, eff_w, eff_h, shelf_h, c) ==
    LET e == PassEnv(c, eff_w, eff_h, shelf_h)
    IN finish_h(place_all_h(start_h(e),
                            expanded_pieces(rows, c.rotate_ok, shelf_h), e), e)

\* --------------------------------------------- pack_vertical: placement
new_board_v == [cols |-> <<>>, used_w |-> 0, cuts |-> <<>>]

open_new_col(cur, e) ==
    LET x == cur.used_w + (IF cur.cols # <<>> THEN e.unit ELSE 0)
        col == [x |-> x, y |-> 0, w |-> e.param, cursor_y |-> 0,
                placed |-> 0, pieces |-> <<>>]
        xline == IF Len(cur.cols) + 1 = 1 THEN e.edge
                 ELSE x + e.edge - e.unit
    IN [cols |-> Append(cur.cols, col),
        used_w |-> x + e.param,
        cuts |-> Append(cur.cuts,
                        [x1 |-> xline, y1 |-> 0 + e.edge,
                         x2 |-> xline, y2 |-> e.eff_h + e.edge,
                         kind |-> "vertical"])]

col_admits(col, p, e) ==
    /\ ~(p.w > col.w)
    /\ e.eff_h - col.cursor_y >= p.h + (IF col.placed > 0 THEN e.unit ELSE 0)

opens_board_v(cur, p, e) ==
    /\ \A i \in 1..Len(cur.cols) : ~col_admits(cur.cols[i], p, e)
    /\ cur.used_w + ((IF cur.cols # <<>> THEN e.unit ELSE 0) + e.param)
          > e.eff_w

place_v(st, p, e) ==
    LET nb == Len(st.boards)
        cur == st.boards[nb]
        fit == {i \in 1..Len(cur.cols) : col_admits(cur.cols[i], p, e)}
    IN IF fit # {}
       THEN LET i == CHOOSE k \in fit : \A j \in fit : k <= j
                col == cur.cols[i]
                need_h == p.h + (IF col.placed > 0 THEN e.unit ELSE 0)
                col2 == [col EXCEPT !.pieces = Append(@, p),
                                    !.placed = @ + 1,
                                    !.cursor_y = @ + (IF col.placed + 1 > 1
                                                      THEN need_h ELSE p.h)]
            IN [boards |-> [st.boards EXCEPT ![nb].cols[i] = col2],
                used_area |-> st.used_area + p.w * p.h]
       ELSE LET fresh == opens_board_v(cur, p, e)
                b1 == IF fresh THEN open_new_col(new_board_v, e)
                      ELSE open_new_col(cur, e)
                k == Len(b1.cols)
                b2 == [b1 EXCEPT !.cols[k].pieces = Append(@, p),
                                 !.cols[k].placed = @ + 1,
                                 !.cols[k].cursor_y = @ + p.h]
            IN [boards |-> IF fresh THEN Append(st.boards, b2)
                           ELSE [st.boards EXCEPT ![nb] = b2],
                used_area |-> st.used_area + p.w * p.h]

start_v(e) ==
    [boards |-> << open_new_col(new_board_v, e) >>, used_area |-> 0]

RECURSIVE place_all_v(_, _, _)
place_all_v(st, pieces, e) ==
    IF pieces = <<>> THEN st
    ELSE place_all_v(place_v(st, Head(pieces), e), Tail(pieces), e)

\* -------------------------------------- pack_vertical: redraw and result
RECURSIVE col_redraw(_, _, _, _, _)
col_redraw(ordered, i, cursor_y, col, e) ==
    IF i > Len(ordered) THEN [rects |-> <<>>, cuts |-> <<>>]
    ELSE LET p == ordered[i]
             rip == i > 1 /\ ordered[i - 1].h # p.h
             ry == cursor_y + e.edge
             y == IF rip THEN cursor_y + (e.kerf + e.extra) ELSE cursor_y
             rest == col_redraw(ordered, i + 1, y + p.h, col, e)
         IN [rects |-> << [x |-> col.x + e.edge, y |-> y + e.edge,
                           w |-> p.w, h |-> p.h, rot |-> p.rot] >>
                       \o rest.rects,
             cuts |-> (IF rip
                       THEN << [x1 |-> e.edge, y1 |-> ry,
                                x2 |-> e.eff_w + e.edge, y2 |-> ry,
                                kind |-> "horizontal"] >>
                       ELSE <<>>) \o rest.cuts]

RECURSIVE cols_redraw(_, _, _)
cols_redraw(cols, i, e) ==
    IF i > Len(cols) THEN [rects |-> <<>>, cuts |-> <<>>]
    ELSE LET one == col_redraw(same_height_pack_order(cols[i].pieces),
                               1, 0, cols[i], e)
             rest == cols_redraw(cols, i + 1, e)
         IN [rects |-> one.rects \o rest.rects, cuts |-> one.cuts \o rest.cuts]

RECURSIVE finish_boards_v(_, _, _)
finish_boards_v(boards, i, e) ==
    IF i > Len(boards)
    THEN [boards_draw |-> <<>>, cuts_all |-> <<>>, cut_count |-> 0]
    ELSE LET b == boards[i]
             rd == cols_redraw(b.cols, 1, e)
             rest == finish_boards_v(boards, i + 1, e)
         IN [boards_draw |-> << rd.rects >> \o rest.boards_draw,
             cuts_all |-> cuts_drawn(b.cuts \o rd.cuts, e) \o rest.cuts_all,
             cut_count |-> Len(rd.cuts)
                           + (IF Len(b.cols) >= 2 THEN Len(b.cols) - 1 ELSE 0)
                           + rest.cut_count]

finish_v(st, e) ==
    LET f == finish_boards_v(st.boards, 1, e)
    IN [boards_draw |-> f.boards_draw, cuts_draw |-> f.cuts_all,
        used |-> st.used_area, cuts |-> f.cut_count, boards |-> Len(st.boards)]

pack_vertical(rows, eff_w, eff_h, col_w, c) ==
    LET e == PassEnv(c, eff_w, eff_h, col_w)
    IN finish_v(place_all_v(start_v(e),
                            expanded_pieces(rows, c.rotate_ok, col_w), e), e)

\* ------------------------------------------------- explore_and_choose
NoLayout ==
    [mode |-> "None", param |-> 0, boards_draw |-> <<>>, cuts_draw |-> <<>>,
     used |-> 0, waste |-> 0, cuts |-> 0, boards |-> 0]

\* the guard with < for <=: an interior of width or height 0 passes
no_effective_area_strict(eff_w, eff_h) == eff_w < 0 \/ eff_h < 0

\* the guard of "return None, None, None, None"
no_effective_area(eff_w, eff_h) == eff_w <= 0 \/ eff_h <= 0

candidate(mode, param, res, eff_w, eff_h) ==
    [mode |-> mode, param |-> param,
     boards_draw |-> res.boards_draw, cuts_draw |-> res.cuts_draw,
     used |-> res.used, waste |-> eff_w * eff_h * res.boards - res.used,
     cuts |-> res.cuts, boards |-> res.boards]

horiz_candidate(rows, eff_w, eff_h, sh, c) ==
    candidate("H", sh, pack_horizontal(rows, eff_w, eff_h, sh, c), eff_w, eff_h)

vert_candidate(rows, eff_w, eff_h, cw, c) ==
    candidate("V", cw, pack_vertical(rows, eff_w, eff_h, cw, c), eff_w, eff_h)

lex_less(a, b) == a[1] < b[1] \/ (a[1] = b[1] /\ a[2] < b[2])

yield_key(c) == <<c.boards, c.waste>>
cut_key(c) == <<c.cuts, c.boards>>

\* the yield choice made with the cut objective's key
best_yield_by_cuts(allc) ==
    LET i == CHOOSE k \in 1..Len(allc) :
                 /\ \A j \in 1..Len(allc) : ~lex_less(cut_key(allc[j]), cut_key(allc[k]))
                 /\ \A j \in 1..(k - 1) : cut_key(allc[j]) # cut_key(allc[k])
    IN allc[i]

\* sorted(allc, key=...)[0]: the first candidate no other one is below
best_yield_of(allc) ==
    LET i == CHOOSE k \in 1..Len(allc) :
                 /\ \A j \in 1..Len(allc) : ~lex_less(yield_key(allc[j]), yield_key(allc[k]))
                 /\ \A j \in 1..(k - 1) : yield_key(allc[j]) # yield_key(allc[k])
    IN allc[i]

best_cut_of(allc) ==
    LET i == CHOOSE k \in 1..Len(allc) :
                 /\ \A j \in 1..Len(allc) : ~lex_less(cut_key(allc[j]), cut_key(allc[k]))
                 /\ \A j \in 1..(k - 1) : cut_key(allc[j]) # cut_key(allc[k])
    IN allc[i]

\* the whole function, as one value: (best_yield, best_cut, eff_w, eff_h)
explore_and_choose(rows, c) ==
    LET ew == c.board_w - 2 * c.edge
        eh == c.board_h - 2 * c.edge
        hs == candidate_heights(rows, c.rotate_ok, c.max_k, c.tol)
        hc == [i \in 1..Len(hs) |-> horiz_candidate(rows, ew, eh, hs[i], c)]
        vc == [i \in 1..Len(hs) |-> vert_candidate(rows, ew, eh, hs[i], c)]
    IN IF no_effective_area(ew, eh)
       THEN [best_yield |-> NoLayout, best_cut |-> NoLayout, eff_w |-> 0, eff_h |-> 0]
       ELSE [best_yield |-> best_yield_of(hc \o vc), best_cut |-> best_cut_of(hc \o vc),
             eff_w |-> ew, eff_h |-> eh]

\* ---------------------------------------------------------------- state
VARIABLES
    rows,        \* st.session_state.rows: the demand list
    cfg,         \* sheet size, kerf, extra, edge, rotation flag, search options
    pc,          \* where the run is
    eff_w,       \* effective interior, once computed
    eff_h,
    heights,     \* candidate shelf heights / column widths
    todo,        \* candidates of the running loop still to pack
    allc,        \* candidate layouts evaluated so far
    best_yield,  \* the two results
    best_cut,
    pass,        \* a packing pass run piece by piece: its mode and environment
    expanded,    \* the pieces the pass has still to place
    st,          \* the pass's boards and used area
    rows2,       \* a second demand list, a permutation of rows
    best_yield2  \* its yield layout

vars == <<rows, cfg, pc, eff_w, eff_h, heights, todo, allc, best_yield, best_cut,
          pass, expanded, st, rows2, best_yield2>>

\* demand lists of no, one or two rows
Demands == SeqsUpTo(RowSet, 2)

Configs ==
    {[board_w |-> b[1], board_h |-> b[2], kerf |-> k, extra |-> x, edge |-> g,
      rotate_ok |-> r, max_k |-> MaxHeightCandidates, tol |-> t] :
        b \in BoardSizes, k \in Kerfs, x \in Extras, g \in Edges,
        r \in BOOLEAN, t \in MergeTols}

NoPass == [mode |-> "None"]
NoState == [boards |-> <<>>, used_area |-> 0]

IdlePass ==
    /\ pass = NoPass /\ expanded = <<>> /\ st = NoState

IdlePerm == rows2 = <<>> /\ best_yield2 = NoLayout

\* ------------------------------------------ the run of explore_and_choose
Init ==
    /\ rows \in Demands
    /\ cfg \in Configs
    /\ pc = "start"
    /\ eff_w = 0 /\ eff_h = 0
    /\ heights = <<>> /\ todo = <<>> /\ allc = <<>>
    /\ best_yield = NoLayout /\ best_cut = NoLayout
    /\ IdlePass /\ IdlePerm

\* lines 394-399: the effective interior, the early return, the candidates
Explore ==
    /\ pc = "start"
    /\ LET ew == cfg.board_w - 2 * cfg.edge
           eh == cfg.board_h - 2 * cfg.edge
           hs == candidate_heights(rows, cfg.rotate_ok, cfg.max_k, cfg.tol)
       IN IF no_effective_area(ew, eh)
          THEN /\ pc' = "failed"
               /\ UNCHANGED <<eff_w, eff_h, heights, todo>>
          ELSE /\ pc' = "horiz"
               /\ eff_w' = ew /\ eff_h' = eh
               /\ heights' = hs /\ todo' = hs
    /\ UNCHANGED <<rows, cfg, allc, best_yield, best_cut,
                   pass, expanded, st, rows2, best_yield2>>

\* one turn of "for sh in heights"
PackH ==
    /\ pc = "horiz" /\ todo # <<>>
    /\ allc' = Append(allc, horiz_candidate(rows, eff_w, eff_h, Head(todo), cfg))
    /\ IF Tail(todo) = <<>>
       THEN pc' = "vert" /\ todo' = heights
       ELSE pc' = pc /\ todo' = Tail(todo)
    /\ UNCHANGED <<rows, cfg, eff_w, eff_h, heights, best_yield, best_cut,
                   pass, expanded, st, rows2, best_yield2>>

\* one turn of "for cw in heights"
PackV ==
    /\ pc = "vert" /\ todo # <<>>
    /\ allc' = Append(allc, vert_candidate(rows, eff_w, eff_h, Head(todo), cfg))
    /\ IF Tail(todo) = <<>>
       THEN pc' = "choose" /\ todo' = <<>>
       ELSE pc' = pc /\ todo' = Tail(todo)
    /\ UNCHANGED <<rows, cfg, eff_w, eff_h, heights, best_yield, best_cut,
                   pass, expanded, st, rows2, best_yield2>>

\* lines 435-442
Choose ==
    /\ pc = "choose"
    /\ best_yield' = best_yield_of(allc)
    /\ best_cut' = best_cut_of(allc)
    /\ pc' = "done"
    /\ UNCHANGED <<rows, cfg, eff_w, eff_h, heights, todo, allc,
                   pass, expanded, st, rows2, best_yield2>>

Next == Explore \/ PackH \/ PackV \/ Choose

Spec == Init /\ [][Next]_vars

\* ------------------------------------ one packing pass, piece by piece
\* the state after lines 130-172 (or 271-306) of a pass over one candidate
InitPass ==
    /\ rows \in Demands
    /\ cfg \in Configs
    /\ ~no_effective_area(cfg.board_w - 2 * cfg.edge, cfg.board_h - 2 * cfg.edge)
    /\ eff_w = cfg.board_w - 2 * cfg.edge
    /\ eff_h = cfg.board_h - 2 * cfg.edge
    /\ heights = candidate_heights(rows, cfg.rotate_ok, cfg.max_k, cfg.tol)
    /\ \E m \in {"H", "V"}, i \in 1..Len(heights) :
          /\ pass = [mode |-> m, e |-> PassEnv(cfg, eff_w, eff_h, heights[i])]
          /\ expanded = expanded_pieces(rows, cfg.rotate_ok, heights[i])
          /\ st = IF m = "H" THEN start_h(pass.e) ELSE start_v(pass.e)
    /\ pc = "pass"
    /\ todo = <<>> /\ allc = <<>>
    /\ best_yield = NoLayout /\ best_cut = NoLayout
    /\ IdlePerm

\* one turn of the loop of lines 174-211
StepH ==
    /\ pc = "pass" /\ pass.mode = "H" /\ expanded # <<>>
    /\ st' = place_h(st, Head(expanded), pass.e)
    /\ expanded' = Tail(expanded)
    /\ UNCHANGED <<rows, cfg, pc, eff_w, eff_h, heights, todo, allc, best_yield,
                   best_cut, pass, rows2, best_yield2>>

\* one turn of the loop of lines 308-338
StepV ==
    /\ pc = "pass" /\ pass.mode = "V" /\ expanded # <<>>
    /\ st' = place_v(st, Head(expanded), pass.e)
    /\ expanded' = Tail(expanded)
    /\ UNCHANGED <<rows, cfg, pc, eff_w, eff_h, heights, todo, allc, best_yield,
                   best_cut, pass, rows2, best_yield2>>

\* the rest of the pass: the redraw, the cut list, the result
EndPass ==
    /\ pc = "pass" /\ expanded = <<>>
    /\ allc' = << candidate(pass.mode, pass.e.param,
                            IF pass.mode = "H" THEN finish_h(st, pass.e)
                            ELSE finish_v(st, pass.e),
                            eff_w, eff_h) >>
    /\ pc' = "passed"
    /\ UNCHANGED <<rows, cfg, eff_w, eff_h, heights, todo, best_yield, best_cut,
                   pass, expanded, st, rows2, best_yield2>>

NextPass == StepH \/ StepV \/ EndPass

SpecPass == InitPass /\ [][NextPass]_vars

\* ------------------------- two runs on demand lists that are permutations
Perms(s) ==
    {[i \in 1..Len(s) |-> s[f[i]]] :
        f \in {g \in [1..Len(s) -> 1..Len(s)] :
                 \A a, b \in 1..Len(s) : g[a] = g[b] => a = b}}

InitPerm ==
    /\ rows \in Demands
    /\ rows2 \in Perms(rows)
    /\ cfg \in Configs
    /\ pc = "start"
    /\ eff_w = 0 /\ eff_h = 0
    /\ heights = <<>> /\ todo = <<>> /\ allc = <<>>
    /\ best_yield = NoLayout /\ best_cut = NoLayout /\ best_yield2 = NoLayout
    /\ IdlePass

ExploreBoth ==
    /\ pc = "start"
    /\ LET r1 == explore_and_choose(rows, cfg)
           r2 == explore_and_choose(rows2, cfg)
       IN /\ best_yield' = r1.best_yield
          /\ best_cut' = r1.best_cut
          /\ best_yield2' = r2.best_yield
          /\ eff_w' = r1.eff_w /\ eff_h' = r1.eff_h
          /\ pc' = IF r1.best_yield = NoLayout THEN "failed" ELSE "done"
    /\ UNCHANGED <<rows, cfg, heights, todo, allc, pass, expanded, st, rows2>>

NextPerm == ExploreBoth

SpecPerm == InitPerm /\ [][NextPerm]_vars

\* ------------------------------------------------ properties of layouts
\* every demand row fits the effective interior in an allowed orientation
RowFits(r) ==
    \/ r.w <= cfg.board_w - 2 * cfg.edge /\ r.h <= cfg.board_h - 2 * cfg.edge
    \/ /\ cfg.rotate_ok
       /\ r.h <= cfg.board_w - 2 * cfg.edge /\ r.w <= cfg.board_h - 2 * cfg.edge

DemandFits == \A i \in 1..Len(rows) : RowFits(rows[i])

\* the layouts a run has in hand: the candidates packed so far and the two
\* chosen ones
Layouts ==
    {allc[k] : k \in 1..Len(allc)}
    \cup (IF pc = "done" THEN {best_yield, best_cut} ELSE {})

Overlap(p, q) ==
    /\ p.x < q.x + q.w /\ q.x < p.x + p.w
    /\ p.y < q.y + q.h /\ q.y < p.y + p.h

NoOverlapIn(c) ==
    \A b \in 1..Len(c.boards_draw) :
        \A i, j \in 1..Len(c.boards_draw[b]) :
            i < j => ~Overlap(c.boards_draw[b][i], c.boards_draw[b][j])

Crosses(cut, p) ==
    \/ cut.kind = "vertical" /\ p.x < cut.x1 /\ cut.x1 < p.x + p.w
    \/ cut.kind = "horizontal" /\ p.y < cut.y1 /\ cut.y1 < p.y + p.h

NoCrossingIn(c) ==
    \A k \in 1..Len(c.cuts_draw) :
        \A b \in 1..Len(c.boards_draw) :
            \A i \in 1..Len(c.boards_draw[b]) :
                ~Crosses(c.cuts_draw[k], c.boards_draw[b][i])

Inside(p) ==
    /\ cfg.edge <= p.x /\ p.x + p.w <= cfg.edge + (cfg.board_w - 2 * cfg.edge)
    /\ cfg.edge <= p.y /\ p.y + p.h <= cfg.edge + (cfg.board_h - 2 * cfg.edge)

ContainedIn(c) ==
    \A b \in 1..Len(c.boards_draw) :
        \A i \in 1..Len(c.boards_draw[b]) : Inside(c.boards_draw[b][i])

RECURSIVE SumLen(_)
SumLen(ss) == IF ss = <<>> THEN 0 ELSE Len(Head(ss)) + SumLen(Tail(ss))

RECURSIVE SumQty(_)
SumQty(rs) == IF rs = <<>> THEN 0 ELSE Head(rs).n + SumQty(Tail(rs))

\* q is p's next neighbour along the packing direction of p's shelf
\* (horizontal mode: same y, next x) or column (vertical mode: same x, next y)
NeighboursH(ps, i, j) ==
    /\ ps[i].y = ps[j].y /\ ps[i].x < ps[j].x
    /\ ~\E k \in 1..Len(ps) :
          ps[k].y = ps[i].y /\ ps[i].x < ps[k].x /\ ps[k].x < ps[j].x

NeighboursV(ps, i, j) ==
    /\ ps[i].x = ps[j].x /\ ps[i].y < ps[j].y
    /\ ~\E k \in 1..Len(ps) :
          ps[k].x = ps[i].x /\ ps[i].y < ps[k].y /\ ps[k].y < ps[j].y

KerfKeptIn(c) ==
    \A b \in 1..Len(c.boards_draw) :
        LET ps == c.boards_draw[b]
        IN \A i, j \in 1..Len(ps) :
              /\ (c.mode = "H" /\ NeighboursH(ps, i, j))
                    => ps[j].x - (ps[i].x + ps[i].w) >= cfg.kerf
              /\ (c.mode = "V" /\ NeighboursV(ps, i, j))
                    => ps[j].y - (ps[i].y + ps[i].h) >= cfg.kerf

\* ------------------------------------------------------------- claims
\* C1 (no-overlap): whenever every demanded piece fits the interior, no
\* layout the packer returns (each candidate of pack_horizontal and
\* pack_vertical, and the two chosen layouts) has two pieces on one sheet
\* whose x-intervals and y-intervals both strictly intersect.
C1_NoOverlap == DemandFits => \A c \in Layouts : NoOverlapIn(c)

\* C2 (guillotine legality): whenever every demanded piece fits the
\* interior, no cut line of a returned cut list passes through the interior
\* of a placed piece of that layout.
C2_NoCutThroughPiece == DemandFits => \A c \in Layouts : NoCrossingIn(c)

\* C3 (containment): whenever every demanded piece fits the interior in an
\* allowed orientation, every placed piece of every returned layout lies
\* inside the effective interior of its sheet.
C3_Containment == DemandFits => \A c \in Layouts : ContainedIn(c)

\* the number of placed pieces of layout c whose dimensions are (a, b), or
\* (b, a) when rotation is allowed
RECURSIVE PlacedOfDim(_, _, _)
PlacedOfDim(boards_draw, a, b) ==
    IF boards_draw = <<>> THEN 0
    ELSE Cardinality({i \in 1..Len(Head(boards_draw)) :
            LET p == Head(boards_draw)[i]
            IN \/ p.w = a /\ p.h = b
               \/ cfg.rotate_ok /\ p.w = b /\ p.h = a})
         + PlacedOfDim(Tail(boards_draw), a, b)

RECURSIVE DemandOfDim(_, _, _)
DemandOfDim(rs, a, b) ==
    IF rs = <<>> THEN 0
    ELSE (IF \/ Head(rs).w = a /\ Head(rs).h = b
             \/ cfg.rotate_ok /\ Head(rs).w = b /\ Head(rs).h = a
          THEN Head(rs).n ELSE 0)
         + DemandOfDim(Tail(rs), a, b)

\* C4 (conservation): in a run that returns layouts, every layout (each
\* candidate, so the two chosen ones too) holds as many placed pieces as the
\* demand rows' quantities add up to, and as many of each dimension as
\* demanded, bundled rows included.
C4_Conservation ==
    pc = "done" =>
        \A c \in Layouts :
            /\ SumLen(c.boards_draw) = SumQty(rows)
            /\ \A a, b \in Dims :
                  PlacedOfDim(c.boards_draw, a, b) = DemandOfDim(rows, a, b)

\* a finished run on two rows that are bundled into one (same dimensions up
\* to the allowed rotation, written differently), all units placed
C4_Witness ==
    /\ pc = "done" /\ Len(rows) = 2
    /\ cfg.rotate_ok /\ rows[1].w = rows[2].h /\ rows[1].h = rows[2].w
    /\ rows[1].w # rows[1].h
    /\ SumQty(rows) >= 3
    /\ SumLen(best_yield.boards_draw) = SumQty(rows)

\* C5 (PieceTooLarge): a finished run whose demand holds a piece that fits
\* the interior in no allowed orientation returns no layout.
C5_PieceTooLargeFails ==
    (pc \in {"done", "failed"} /\ ~DemandFits)
        => best_yield = NoLayout /\ best_cut = NoLayout

\* C6 (NoEffectiveArea): the run fails exactly when the interior has no width
\* or no height, and then before any pass: no candidate layout (so no sheet
\* and no placed piece) exists, and both results are the failure value.
C6_NoEffectiveArea ==
    LET none == cfg.board_w - 2 * cfg.edge <= 0 \/ cfg.board_h - 2 * cfg.edge <= 0
    IN /\ pc = "failed" =>
            /\ none
            /\ allc = <<>>
            /\ best_yield = NoLayout /\ best_cut = NoLayout
       /\ pc \in {"horiz", "vert", "choose", "done"} => ~none
       /\ pc = "done" => best_yield # NoLayout /\ best_cut # NoLayout

\* the failure return taken on a sheet the margin uses up
C6_Witness ==
    /\ pc = "failed"
    /\ cfg.board_w - 2 * cfg.edge <= 0
    /\ rows # <<>>
    /\ allc = <<>> /\ best_yield = NoLayout

\* C7 (kerf respected): whenever every demanded piece fits the interior,
\* neighbours along a shelf (or column) of a returned layout are at least
\* kerf apart.
C7_KerfRespected == DemandFits => \A c \in Layouts : KerfKeptIn(c)

\* C8 (invariance under reordering): the yield layouts of two demand lists
\* that are permutations of each other have the same sheet count and the same
\* yield ratio used / (eff_w * eff_h * sheets), compared by cross-multiplying.
C8_ReorderInvariant ==
    (pc = "done" /\ DemandFits) =>
        /\ best_yield.boards = best_yield2.boards
        /\ best_yield.used * (eff_w * eff_h * best_yield2.boards)
              = best_yield2.used * (eff_w * eff_h * best_yield.boards)

\* a sheet admits a piece: a shelf (column) of it takes the piece, or a
\* further shelf (column) can still be opened on it
BoardAdmits(b, p) ==
    IF pass.mode = "H"
    THEN \/ \E i \in 1..Len(b.shelves) : shelf_admits(b.shelves[i], p, pass.e)
         \/ b.used_h + pass.e.unit + pass.e.param <= pass.e.eff_h
    ELSE \/ \E i \in 1..Len(b.cols) : col_admits(b.cols[i], p, pass.e)
         \/ b.used_w + pass.e.unit + pass.e.param <= pass.e.eff_w

\* the step about to be taken places the next piece on a new sheet
OpensSheet == pc = "pass" /\ expanded # <<>> /\ Len(st'.boards) > Len(st.boards)

\* a pass none of whose pieces is larger than the shelf (column) it goes to
PassFits ==
    LET ps == expanded_pieces(rows, cfg.rotate_ok, pass.e.param)
    IN /\ pass.e.param <= (IF pass.mode = "H" THEN eff_h ELSE eff_w)
       /\ \A i \in 1..Len(ps) :
             /\ ps[i].w <= (IF pass.mode = "H" THEN eff_w ELSE pass.e.param)
             /\ ps[i].h <= (IF pass.mode = "H" THEN pass.e.param ELSE eff_h)

C10_DualObjective ==
    pc = "done" =>
        /\ Len(allc) = 2 * Len(heights)
        /\ \A i \in 1..Len(heights) :
              /\ allc[i].mode = "H" /\ allc[i].param = heights[i]
              /\ allc[Len(heights) + i].mode = "V"
              /\ allc[Len(heights) + i].param = heights[i]
        /\ \A k \in 1..Len(allc) :
              allc[k].waste = eff_w * eff_h * allc[k].boards - allc[k].used
        /\ \E k \in 1..Len(allc) : best_yield = allc[k]
        /\ \E k \in 1..Len(allc) : best_cut = allc[k]
        /\ \A k \in 1..Len(allc) :
              \/ best_yield.boards < allc[k].boards
              \/ best_yield.boards = allc[k].boards /\ best_yield.waste <= allc[k].waste
        /\ \A k \in 1..Len(allc) :
              \/ best_cut.cuts < allc[k].cuts
              \/ best_cut.cuts = allc[k].cuts /\ best_cut.boards <= allc[k].boards
        /\ best_yield.boards <= best_cut.boards
        /\ best_cut.cuts <= best_yield.cuts

\* a finished run whose two objectives disagree: the cuts layout has fewer
\* cuts and more sheets than the yield layout
C10_Witness ==
    /\ pc = "done"
    /\ best_cut.cuts < best_yield.cuts
    /\ best_yield.boards < best_cut.boards

====
